---- MODULE Spec2Model ----
(***************************************************************************)
(* Receipt splitter front end: the single-page flow of page.tsx            *)
(* (Upload -> Review/Interview -> Results), the quality gate               *)
(* isReceiptTooPoor, the API client of lib/api.ts and the controls of      *)
(* ReviewStep / UploadStep / ResultsStep that start the handlers.          *)
(*                                                                         *)
(* Representation.  A JS string is a sequence of tokens (words); a value   *)
(* that may be null is either the record null or a boxed value: Str(ws)    *)
(* for a string, Arr(xs) for an array, a record for an object.  Money is   *)
(* kept in cents.                                                          *)
(***************************************************************************)
EXTENDS Integers, Sequences, FiniteSets, TLC

VARIABLES step, loading, error, state, clarification, attempts,
          text, pending, last, failedRounds, db, calls, submissions

vars == <<step, loading, error, state, clarification, attempts,
          text, pending, last, failedRounds, db, calls, submissions>>

(***************************************************************************)
(* Bounds of the explored inputs                                           *)
(***************************************************************************)
MaxItems == 4
MaxQuestions == 6
MaxRoundQuestions == 2
MaxCountedRounds == 5

(***************************************************************************)
(* JS values                                                               *)
(***************************************************************************)
null == [null |-> TRUE]

Str(ws) == [str |-> ws]

Arr(xs) == [arr |-> xs]

MAX_INTERVIEW_ATTEMPTS == 3

(***************************************************************************)
(* String helpers: toLowerCase, includes, join, trim                       *)
(***************************************************************************)
ToLowerCase(s) ==
  [i \in 1..Len(s) |->
     CASE s[i] = "Vision" -> "vision"
       [] s[i] = "Model" -> "model"
       [] s[i] = "FAILED" -> "failed"
       [] s[i] = "Confidence" -> "confidence"
       [] s[i] = "Low" -> "low"
       [] s[i] = "Who" -> "who"
       [] OTHER -> s[i]]

Includes(s, needle) ==
  \E i \in 1..(Len(s) - Len(needle) + 1) :
     SubSeq(s, i, i + Len(needle) - 1) = needle

RECURSIVE Join(_, _)
Join(arr, sep) ==
  IF Len(arr) = 0 THEN <<>>
  ELSE IF Len(arr) = 1 THEN arr[1]
  ELSE arr[1] \o sep \o Join(Tail(arr), sep)

IsSpace(w) == w \in {" ", "\n"}

RECURSIVE TrimStart(_)
TrimStart(s) ==
  IF Len(s) > 0 /\ IsSpace(s[1]) THEN TrimStart(Tail(s)) ELSE s

RECURSIVE TrimEnd(_)
TrimEnd(s) ==
  IF Len(s) > 0 /\ IsSpace(s[Len(s)])
  THEN TrimEnd(SubSeq(s, 1, Len(s) - 1)) ELSE s

Trim(s) == TrimEnd(TrimStart(s))

(***************************************************************************)
(* Quality gate (page.tsx, isReceiptTooPoor)                               *)
(***************************************************************************)
VisionFailedNeedle == <<"vision", "model", "failed">>

ConfidenceNeedle == <<"confidence">>

FlagCount(pq) ==
  Cardinality({i \in 1..Len(pq) : Includes(ToLowerCase(pq[i]), ConfidenceNeedle)})

\* Variant: the boundary is exclusive.
RatioAtLeastHalf_Strict(flagCount, totalFields) == 2 * flagCount > totalFields

\* flagCount / totalFields >= 0.5 on two small non-negative integers with
\* totalFields > 0: the IEEE quotient is >= 0.5 exactly when 2*flagCount >=
\* totalFields.
RatioAtLeastHalf(flagCount, totalFields) == 2 * flagCount >= totalFields

\* Variant: the zero-items test is missing.
isReceiptTooPoor_NoEmptyCheck(s) ==
  IF Len(s.pending_questions) = 1
     /\ Includes(ToLowerCase(s.pending_questions[1]), VisionFailedNeedle)
  THEN TRUE
  ELSE LET totalFields == Len(s.items) * 3
           flagCount == FlagCount(s.pending_questions)
       IN  totalFields > 0 /\ RatioAtLeastHalf(flagCount, totalFields)

\* Variant: the failure message is looked for whatever the number of messages.
isReceiptTooPoor_AnyFailureMessage(s) ==
  IF Len(s.pending_questions) >= 1
     /\ Includes(ToLowerCase(s.pending_questions[1]), VisionFailedNeedle)
  THEN TRUE
  ELSE IF Len(s.items) = 0 THEN TRUE
  ELSE LET totalFields == Len(s.items) * 3
           flagCount == FlagCount(s.pending_questions)
       IN  totalFields > 0 /\ RatioAtLeastHalf(flagCount, totalFields)

isReceiptTooPoor(s) ==
  IF Len(s.pending_questions) = 1
     /\ Includes(ToLowerCase(s.pending_questions[1]), VisionFailedNeedle)
  THEN TRUE
  ELSE IF Len(s.items) = 0 THEN TRUE
  ELSE LET totalFields == Len(s.items) * 3
           flagCount == FlagCount(s.pending_questions)
       IN  totalFields > 0 /\ RatioAtLeastHalf(flagCount, totalFields)

(***************************************************************************)
(* Inputs: what the backend can answer                                     *)
(***************************************************************************)
ThreadIds == {"t1", "t2"}

\* Diagnostic messages the backend attaches to a state, as token sequences.
Messages ==
  << <<"Vision", "Model", "FAILED", ":", "timeout">>,
     <<"Low", "Confidence", "for", "item", "name">>,
     <<"vision", "model", "failed", "with", "low", "confidence">>,
     <<"Who", "had", "the", "pizza", "?">> >>

\* Message lists of length n over the messages numbered in idx, up to the
\* order of the messages (the lists are enumerated in catalogue order).
QuestionLists(n, idx) ==
  {[i \in 1..n |-> Messages[q[i]]] :
     q \in {f \in [1..n -> idx] : \A i \in 1..(n - 1) : f[i] <= f[i + 1]}}

QuestionListsUpTo(n, idx) == UNION {QuestionLists(k, idx) : k \in 0..n}

\* An extraction can attach any of the messages; a round answers with
\* low-confidence notes and questions.
ExtractionMessages == 1..Len(Messages)

RoundMessages == {2, 4}

Item(i) == [name |-> "item" \o ToString(i)]

ItemLists == {[i \in 1..n |-> Item(i)] : n \in 0..MaxItems}

\* Totals of the receipt, in cents.
Totals ==
  {null,
   [subtotal |-> 3000, tax_total |-> 240, tip_total |-> 600,
    fees_total |-> 0, grand_total |-> 3840]}

\* final_costs of a state: absent, empty, or one ParticipantCost per person
\* (total_owed in cents): "15.36" and "23.04", "23.10" or "23.11", against
\* the grand total "38.40".
FinalCosts ==
  {null,
   Arr(<<>>),
   Arr(<<[participant |-> "Alice", total_owed |-> 1536],
         [participant |-> "Bob", total_owed |-> 2304]>>),
   Arr(<<[participant |-> "Alice", total_owed |-> 1536],
         [participant |-> "Bob", total_owed |-> 2310]>>),
   Arr(<<[participant |-> "Alice", total_owed |-> 1536],
         [participant |-> "Bob", total_owed |-> 2311]>>)}

\* Fractions are kept in millionths: "1" is One, "0.5" is Half.
One == 1000000

Half == 500000

Third == 333333

Share(participant, fraction) == [participant |-> participant, fraction |-> fraction]

ItemAssignment(index, shares) == [item_index |-> index, shares |-> shares]

\* ItemAssignment lists for n items (item_index counts from 0): every item
\* to one person; the first item split in thirds; the first item half
\* assigned; the first item with no shares; the first item left out.
AssignedInFull(n) ==
  [i \in 1..n |-> ItemAssignment(i - 1, <<Share("Alice", One)>>)]

AssignedInThirds(n) ==
  [i \in 1..n |->
     IF i = 1
     THEN ItemAssignment(0, <<Share("Alice", Third), Share("Bob", Third),
                              Share("Charlie", Third)>>)
     ELSE ItemAssignment(i - 1, <<Share("Bob", One)>>)]

AssignedInPart(n) ==
  [i \in 1..n |->
     IF i = 1 THEN ItemAssignment(0, <<Share("Bob", Half)>>)
     ELSE ItemAssignment(i - 1, <<Share("Alice", Half), Share("Bob", Half)>>)]

AssignedWithoutShares(n) ==
  [i \in 1..n |->
     IF i = 1 THEN ItemAssignment(0, <<>>)
     ELSE ItemAssignment(i - 1, <<Share("Alice", One)>>)]

AssignedExceptFirst(n) ==
  [i \in 1..(n - 1) |-> ItemAssignment(i, <<Share("Alice", One)>>)]

ReceiptState(tid, items, totals, pq, fc, asg) ==
  [thread_id |-> tid, items |-> items, totals |-> totals,
   pending_questions |-> pq, final_costs |-> fc, assignments |-> asg]

\* States returned by POST /upload: a fresh thread, the extracted items and
\* totals, the diagnostics of the extraction, no costs yet.
UploadStates ==
  {ReceiptState(tid, items, totals, pq, null, <<>>) :
     tid \in ThreadIds, items \in ItemLists, totals \in Totals \ {null},
     pq \in QuestionListsUpTo(MaxQuestions, ExtractionMessages)}

\* States returned by POST /interview/{tid}: any items, totals, questions and
\* costs of the declared types (the assignments, which no component reads,
\* are those of the items).
InterviewStates(tid) ==
  {ReceiptState(tid, items, totals, pq, fc, AssignedInFull(Len(items))) :
     items \in {[i \in 1..n |-> Item(i)] : n \in {0, 1}},
     totals \in Totals, pq \in QuestionListsUpTo(MaxRoundQuestions, RoundMessages),
     fc \in FinalCosts}

(***************************************************************************)
(* The backend of the interview, after spec.md 3, 4.2 and 4.3: items and   *)
(* totals are read-only once extracted, and costs are produced only for    *)
(* a complete assignment.                                                  *)
(***************************************************************************)
RECURSIVE SumFractions(_)
SumFractions(shares) ==
  IF Len(shares) = 0 THEN 0 ELSE shares[1].fraction + SumFractions(Tail(shares))

\* tolerance of the fraction sum, 1e-6, in millionths
FractionTolerance == 1

\* the entries of an assignment list for the item numbered index
EntriesFor(asg, index) == {k \in 1..Len(asg) : asg[k].item_index = index}

\* IncompleteAssignment of 4.3 step 1: some item has no assignment, or its
\* fractions do not sum to 1 within the tolerance
IncompleteAssignment(items, asg) ==
  \E index \in 0..(Len(items) - 1) :
     \/ EntriesFor(asg, index) = {}
     \/ \E k \in EntriesFor(asg, index) :
           \/ Len(asg[k].shares) = 0
           \/ SumFractions(asg[k].shares) - One > FractionTolerance
           \/ One - SumFractions(asg[k].shares) > FractionTolerance

AssignmentOptions(n) ==
  IF n = 0 THEN {<<>>}
  ELSE {AssignedInFull(n), AssignedInThirds(n), AssignedInPart(n),
        AssignedWithoutShares(n), AssignedExceptFirst(n)}

\* States a round can return for the session whose state is cur.
BackendRoundStates(cur) ==
  {s \in {ReceiptState(cur.thread_id, cur.items, cur.totals, pq, fc, asg) :
            pq \in QuestionListsUpTo(MaxRoundQuestions, RoundMessages),
            fc \in FinalCosts, asg \in AssignmentOptions(Len(cur.items))} :
     (s.final_costs # null /\ Len(s.final_costs.arr) > 0)
        => ~IncompleteAssignment(s.items, s.assignments)}

HttpErrorStatuses == {422, 500}

ErrorDetails == {null, Str(<<"Thread not found">>)}

Error(message) == [isError |-> TRUE, message |-> message]

\* Outcomes of fetch(): a network failure, or a response whose body either
\* parses as JSON (parsed) or does not.
FetchFailures ==
  {[kind |-> "reject", reason |-> Error(<<"Failed to fetch">>)]}

FetchErrorResponses ==
  {[kind |-> "response", ok |-> FALSE, status |-> st, parsed |-> p, body |-> b] :
     st \in HttpErrorStatuses, p \in BOOLEAN,
     b \in {[detail |-> d] : d \in ErrorDetails}}

FetchOkResponses(states) ==
  {[kind |-> "response", ok |-> TRUE, status |-> 200, parsed |-> TRUE,
    body |-> [thread_id |-> s.thread_id, state |-> s]] : s \in states}
  \cup {[kind |-> "response", ok |-> TRUE, status |-> 200, parsed |-> FALSE,
         body |-> null]}

FetchOutcomes(states) ==
  FetchFailures \cup FetchErrorResponses \cup FetchOkResponses(states)

(***************************************************************************)
(* API client (lib/api.ts)                                                 *)
(***************************************************************************)
Fulfilled(v) == [settled |-> "fulfilled", value |-> v]

Rejected(r) == [settled |-> "rejected", reason |-> r]

\* res.json().catch(() => null) followed by body?.detail ?? fallback
DetailOr(res, fallback) ==
  IF res.parsed /\ res.body.detail # null THEN res.body.detail.str ELSE fallback

\* res.json() on a body that is not JSON
JsonSyntaxError == Error(<<"Unexpected token in JSON">>)

uploadReceipt(res) ==
  IF res.kind = "reject" THEN Rejected(res.reason)
  ELSE IF ~res.ok
  THEN Rejected(Error(DetailOr(res,
         <<"Upload failed (", ToString(res.status), ")">>)))
  ELSE IF res.parsed THEN Fulfilled(res.body) ELSE Rejected(JsonSyntaxError)

submitInterview(res) ==
  IF res.kind = "reject" THEN Rejected(res.reason)
  ELSE IF ~res.ok
  THEN Rejected(Error(DetailOr(res,
         <<"Interview submission failed (", ToString(res.status), ")">>)))
  ELSE IF res.parsed THEN Fulfilled(res.body) ELSE Rejected(JsonSyntaxError)

(***************************************************************************)
(* The store: the tables of the schema script (part_001, SQL part).        *)
(* A table is the set of its rows; amounts are stored in cents, fractions  *)
(* in units of 0.00001.  Columns without a constraint that a statement     *)
(* here could violate (created_at, ts, name of an item, confidence,        *)
(* details) are left out of the rows.                                      *)
(***************************************************************************)
ReceiptIds == ThreadIds
ParticipantIds == {"p1", "p2"}
ParticipantNames == {"Alice"}
ItemIds == {"i1"}
AuditNodes == {"gate"}
AuditMessages == {"rejected", "allocated"}

\* bound on the values drawn from the sequence of audit_logs.id
MaxAuditEvents == 2

\* Coercion to NUMERIC(p, s): rounding to s decimals, half away from zero.
\* x is in units of a tenth of the column's last decimal.
Numeric(x) == IF x >= 0 THEN (x + 5) \div 10 ELSE 0 - ((5 - x) \div 10)

\* NUMERIC(6,5) holds less than 10 in absolute value.
FractionLimit == 1000000
NumericOverflow(v, limit) == v >= limit \/ 0 - v >= limit

\* values a statement may carry, before coercion (tenths of a cent)
\* (subtotal, tax, tip, fees, grand total): two rows that pass every CHECK,
\* the second only after rounding, and rows that fail one or two of them
ReceiptAmounts ==
  {<<10000, 0, 0, 0, 10000>>,
   <<10004, 996, 0, 0, 10996>>,
   <<0 - 10000, 20000, 0, 0, 10000>>,
   <<20000, 0 - 10000, 0, 0, 10000>>,
   <<10010, 0, 0 - 10, 0, 10000>>,
   <<10010, 0, 0, 0 - 10, 10000>>,
   <<0 - 10000, 0, 0, 0, 0 - 10000>>,
   <<10000, 996, 0, 0, 10000>>}

\* values of fraction before coercion (millionths), 10.0 among them
FractionInputs == {0 - 10, 0 - 4, 500000, 1000004, 1000006, 10000000}

ReceiptValues ==
  {[id |-> id, subtotal |-> a[1], tax_total |-> a[2], tip_total |-> a[3],
    fees_total |-> a[4], grand_total |-> a[5]] : id \in ReceiptIds, a \in ReceiptAmounts}

ParticipantValues == [id : ParticipantIds, receipt_id : ReceiptIds, name : ParticipantNames]

\* quantity in ten-thousandths, prices in tenths of a cent
ItemValues ==
  [id : ItemIds, receipt_id : ReceiptIds, quantity : {4, 10000},
   unit_price : {5000}, line_total : {5000, 0 - 5000}]

AssignmentValues ==
  [item_id : ItemIds, participant_id : ParticipantIds, fraction : FractionInputs]

AuditValues == [receipt_id : ReceiptIds, node : AuditNodes, message : AuditMessages]

\* the tables right after the schema script has run
EmptyDb ==
  [receipts |-> {}, participants |-> {}, receipt_items |-> {},
   assignments |-> {}, audit_logs |-> {}, audit_logs_id_seq |-> 0]

Ids(table) == {r.id : r \in table}

\* CREATE TABLE receipts
receipts_row(v) ==
  [id |-> v.id, subtotal |-> Numeric(v.subtotal), tax_total |-> Numeric(v.tax_total),
   tip_total |-> Numeric(v.tip_total), fees_total |-> Numeric(v.fees_total),
   grand_total |-> Numeric(v.grand_total)]

receipts_total_consistency(r) ==
  r.grand_total = r.subtotal + r.tax_total + r.tip_total + r.fees_total

\* Variant: the columns are checked one by one only.
receipts_check_ColumnsOnly(r) ==
  /\ r.subtotal >= 0
  /\ r.tax_total >= 0
  /\ r.tip_total >= 0
  /\ r.fees_total >= 0
  /\ r.grand_total >= 0

receipts_check(r) ==
  /\ r.subtotal >= 0
  /\ r.tax_total >= 0
  /\ r.tip_total >= 0
  /\ r.fees_total >= 0
  /\ r.grand_total >= 0
  /\ receipts_total_consistency(r)

\* INSERT INTO receipts: the statement fails, and changes nothing, on a
\* duplicate key or a failed CHECK
insert_receipts(d, v) ==
  LET r == receipts_row(v)
  IN  IF r.id \in Ids(d.receipts) \/ ~receipts_check(r) THEN d
      ELSE [d EXCEPT !.receipts = @ \cup {r}]

\* UPDATE receipts SET (the five amounts) WHERE id = v.id
update_receipts(d, v) ==
  LET r == receipts_row(v)
  IN  IF r.id \notin Ids(d.receipts) \/ ~receipts_check(r) THEN d
      ELSE [d EXCEPT !.receipts = {x \in @ : x.id # r.id} \cup {r}]

\* CREATE TABLE participants
participants_unique_per_receipt(d, r) ==
  ~\E x \in d.participants : x.receipt_id = r.receipt_id /\ x.name = r.name

insert_participants(d, v) ==
  IF \/ v.id \in Ids(d.participants)
     \/ v.receipt_id \notin Ids(d.receipts)
     \/ ~participants_unique_per_receipt(d, v)
  THEN d
  ELSE [d EXCEPT !.participants = @ \cup {v}]

\* CREATE TABLE receipt_items
receipt_items_row(v) ==
  [id |-> v.id, receipt_id |-> v.receipt_id, quantity |-> Numeric(v.quantity),
   unit_price |-> Numeric(v.unit_price), line_total |-> Numeric(v.line_total)]

receipt_items_check(r) == r.quantity > 0 /\ r.unit_price >= 0 /\ r.line_total >= 0

insert_receipt_items(d, v) ==
  LET r == receipt_items_row(v)
  IN  IF \/ r.id \in Ids(d.receipt_items)
         \/ r.receipt_id \notin Ids(d.receipts)
         \/ ~receipt_items_check(r)
      THEN d
      ELSE [d EXCEPT !.receipt_items = @ \cup {r}]

\* CREATE TABLE assignments
FractionOne == 100000

assignments_row(v) ==
  [item_id |-> v.item_id, participant_id |-> v.participant_id,
   fraction |-> Numeric(v.fraction)]

assignments_check(r) == r.fraction >= 0 /\ r.fraction <= FractionOne

assignments_pkey(d, r) ==
  ~\E x \in d.assignments : x.item_id = r.item_id /\ x.participant_id = r.participant_id

\* Variant: the key is not enforced.
insert_assignments_NoKey(d, v) ==
  LET r == assignments_row(v)
  IN  IF \/ NumericOverflow(r.fraction, FractionLimit)
         \/ r.item_id \notin Ids(d.receipt_items)
         \/ r.participant_id \notin Ids(d.participants)
         \/ ~assignments_check(r)
      THEN d
      ELSE [d EXCEPT !.assignments = @ \cup {r}]

insert_assignments(d, v) ==
  LET r == assignments_row(v)
  IN  IF \/ NumericOverflow(r.fraction, FractionLimit)
         \/ ~assignments_pkey(d, r)
         \/ r.item_id \notin Ids(d.receipt_items)
         \/ r.participant_id \notin Ids(d.participants)
         \/ ~assignments_check(r)
      THEN d
      ELSE [d EXCEPT !.assignments = @ \cup {r}]

\* UPDATE assignments SET fraction WHERE item_id, participant_id
update_assignments(d, v) ==
  LET r == assignments_row(v)
  IN  IF \/ assignments_pkey(d, r)
         \/ NumericOverflow(r.fraction, FractionLimit)
         \/ ~assignments_check(r)
      THEN d
      ELSE [d EXCEPT !.assignments =
              {x \in @ : ~(x.item_id = r.item_id /\ x.participant_id = r.participant_id)}
              \cup {r}]

\* UPDATE assignments SET participant_id = to WHERE item_id, participant_id
move_assignments(d, item, from, to) ==
  LET rows == {x \in d.assignments : x.item_id = item /\ x.participant_id = from}
      moved == {[x EXCEPT !.participant_id = to] : x \in rows}
      rest == d.assignments \ rows
  IN  IF \/ rows = {}
         \/ to \notin Ids(d.participants)
         \/ \E x \in rest : x.item_id = item /\ x.participant_id = to
      THEN d
      ELSE [d EXCEPT !.assignments = rest \cup moved]

delete_assignments(d, item, participant) ==
  [d EXCEPT !.assignments =
     {x \in @ : ~(x.item_id = item /\ x.participant_id = participant)}]

\* DELETE FROM receipt_items / participants: ON DELETE CASCADE of assignments
delete_receipt_items(d, id) ==
  [d EXCEPT !.receipt_items = {x \in @ : x.id # id},
            !.assignments = {x \in @ : x.item_id # id}]

delete_participants(d, id) ==
  [d EXCEPT !.participants = {x \in @ : x.id # id},
            !.assignments = {x \in @ : x.participant_id # id}]

\* CREATE TABLE audit_logs: id BIGSERIAL takes the next value of its
\* sequence, which stays advanced when the statement fails
insert_audit_logs(d, v) ==
  LET id == d.audit_logs_id_seq + 1
      r == [id |-> id, receipt_id |-> v.receipt_id, node |-> v.node,
            message |-> v.message]
      d1 == [d EXCEPT !.audit_logs_id_seq = id]
  IN  IF r.receipt_id \notin Ids(d.receipts) THEN d1
      ELSE [d1 EXCEPT !.audit_logs = @ \cup {r}]

\* DELETE FROM receipts: ON DELETE CASCADE of participants, receipt_items
\* and audit_logs, and through them of assignments
delete_receipts(d, id) ==
  LET items == {x \in d.receipt_items : x.receipt_id = id}
      people == {x \in d.participants : x.receipt_id = id}
  IN  [d EXCEPT !.receipts = {x \in @ : x.id # id},
                !.participants = @ \ people,
                !.receipt_items = @ \ items,
                !.assignments = {x \in @ : /\ x.item_id \notin Ids(items)
                                           /\ x.participant_id \notin Ids(people)},
                !.audit_logs = {x \in @ : x.receipt_id # id}]

\* running the schema script: DROP TABLE IF EXISTS ... CASCADE of the five
\* tables (the sequence of audit_logs.id goes with its table), then CREATE
run_schema(d) == EmptyDb

(***************************************************************************)
(* React state of Home (page.tsx) and of the mounted ReviewStep            *)
(***************************************************************************)
\* The values of the useState cells of Home, as one record: a handler run
\* queues its set-calls on such a record and React commits them together.
Cells ==
  [step |-> step, loading |-> loading, error |-> error, state |-> state,
   clarification |-> clarification, attempts |-> attempts]

NoRequest == [kind |-> "none"]

\* ReviewStep is rendered (and owns its text box) under this condition.
ReviewMounted(c) == c.step = "review" /\ c.state # null

\* ResultsStep is rendered under this condition.
ResultsMounted(c) == c.step = "results" /\ c.state # null /\ c.state.final_costs # null

\* UploadStep is rendered under this condition.
UploadMounted(c) == c.step = "upload" /\ ~c.loading

\* Commit the queued set-calls; the text box keeps its content only while
\* ReviewStep stays mounted (useState("") on every mount).  No handler of
\* the page reaches the store.
Commit(c, newText) ==
  /\ db' = db
  /\ step' = c.step
  /\ loading' = c.loading
  /\ error' = c.error
  /\ state' = c.state
  /\ clarification' = c.clarification
  /\ attempts' = c.attempts
  /\ text' = IF ReviewMounted(Cells) /\ ReviewMounted(c) THEN newText ELSE <<>>

Init ==
  /\ step = "upload"
  /\ loading = FALSE
  /\ error = null
  /\ state = null
  /\ clarification = null
  /\ attempts = 0
  /\ text = <<>>
  /\ pending = NoRequest
  /\ last = [op |-> "init"]
  /\ failedRounds = 0
  /\ db = EmptyDb
  /\ calls = 0
  /\ submissions = 0

(***************************************************************************)
(* Handlers of Home                                                        *)
(***************************************************************************)
GateRejectMessage ==
  <<"The receipt image wasn't clear enough to extract items reliably. ",
    "Please upload a higher-quality photo.">>

NotEnoughInformationMessage ==
  <<"Not enough information was provided to split the bill accurately. Please try again.">>

ComputeFailedMessage ==
  <<"Something went wrong computing the split. Please try describing the assignments again.">>

\* err instanceof Error ? err.message : fallback
MessageOf(err, fallback) == IF err.isError THEN err.message ELSE fallback

\* Variant: the previous error is not cleared.
handleUploadStart_KeepsError(c) == [c EXCEPT !.loading = TRUE]

(***************************************************************************)
(* Results view (ResultsStep.tsx)                                          *)
(***************************************************************************)
Abs(x) == IF x < 0 THEN -x ELSE x

\* costs.reduce((sum, c) => sum + parseFloat(c.total_owed), 0), in cents
RECURSIVE SumOwed(_)
SumOwed(costs) ==
  IF Len(costs) = 0 THEN 0 ELSE costs[1].total_owed + SumOwed(Tail(costs))

\* the literal 0.06 of the comparison, in cents
ToleranceCents == 6

\* Variant: the comparison is <=.
TotalsMatch_Inclusive(grandTotal, receiptTotal) ==
  Abs(grandTotal - receiptTotal) <= ToleranceCents

\* Math.abs(grandTotal - parseFloat(totals.grand_total)) < 0.06.  On the cost
\* lists above the doubles give 0, 0.060000000000002274 and
\* 0.07000000000000028 against 38.40, which is what the comparison in cents
\* gives.
TotalsMatch(grandTotal, receiptTotal) ==
  Abs(grandTotal - receiptTotal) < ToleranceCents

\* The validation row: the sum of the shares, the receipt total and the
\* verdict, the last two only when totals is present.
ResultsStep(costs, totals) ==
  LET grandTotal == SumOwed(costs)
  IN  [sumOfShares |-> grandTotal,
       receiptTotal |-> IF totals # null THEN totals.grand_total ELSE -1,
       verdict |-> IF totals = null THEN "none"
                   ELSE IF TotalsMatch(grandTotal, totals.grand_total)
                   THEN "match" ELSE "differ"]

(***************************************************************************)
(* Handlers of Home, continued                                             *)
(***************************************************************************)
\* handleUpload up to the await
handleUploadStart(c) == [c EXCEPT !.loading = TRUE, !.error = null]

\* Variant: the state is stored before the gate is asked.
handleUploadSettled_StateBeforeGate(c, p) ==
  IF p.settled = "fulfilled"
  THEN LET s == p.value.state
           c1 == [c EXCEPT !.state = s]
       IN  IF isReceiptTooPoor(s)
           THEN [c1 EXCEPT !.error = Str(GateRejectMessage), !.loading = FALSE]
           ELSE [c1 EXCEPT !.step = "review", !.loading = FALSE]
  ELSE [c EXCEPT !.error = Str(MessageOf(p.reason, <<"Upload failed">>)),
                 !.loading = FALSE]

\* handleUpload from the await on; p is the settled uploadReceipt promise
\* Variant: every failure is reported with the fallback text.
handleUploadSettled_GenericError(c, p) ==
  IF p.settled = "fulfilled"
  THEN LET s == p.value.state
       IN  IF isReceiptTooPoor(s)
           THEN [c EXCEPT !.error = Str(GateRejectMessage), !.loading = FALSE]
           ELSE [c EXCEPT !.state = s, !.step = "review", !.loading = FALSE]
  ELSE [c EXCEPT !.error = Str(<<"Upload failed">>), !.loading = FALSE]

handleUploadSettled(c, p) ==
  IF p.settled = "fulfilled"
  THEN LET s == p.value.state
       IN  IF isReceiptTooPoor(s)
           THEN [c EXCEPT !.error = Str(GateRejectMessage), !.loading = FALSE]
           ELSE [c EXCEPT !.state = s, !.step = "review", !.loading = FALSE]
  ELSE [c EXCEPT !.error = Str(MessageOf(p.reason, <<"Upload failed">>)),
                 !.loading = FALSE]

\* Variant: the budget test is > instead of >=.
handleFailedAttempt_BudgetOffByOne(c, message, closureAttempts) ==
  LET nextAttempt == closureAttempts + 1
  IN  IF nextAttempt > MAX_INTERVIEW_ATTEMPTS
      THEN [c EXCEPT !.step = "upload",
                     !.error = Str(NotEnoughInformationMessage),
                     !.state = null,
                     !.clarification = null,
                     !.attempts = 0]
      ELSE [c EXCEPT !.attempts = nextAttempt,
                     !.clarification =
                        Str(message \o <<"\n\n", "(Attempt ", ToString(nextAttempt),
                                         " of ", ToString(MAX_INTERVIEW_ATTEMPTS), ")">>)]

\* Variant: the annotation shows the attempts of the closure, not nextAttempt.
handleFailedAttempt_StaleLabel(c, message, closureAttempts) ==
  LET nextAttempt == closureAttempts + 1
  IN  IF nextAttempt >= MAX_INTERVIEW_ATTEMPTS
      THEN [c EXCEPT !.step = "upload",
                     !.error = Str(NotEnoughInformationMessage),
                     !.state = null,
                     !.clarification = null,
                     !.attempts = 0]
      ELSE [c EXCEPT !.attempts = nextAttempt,
                     !.clarification =
                        Str(message \o <<"\n\n", "(Attempt ", ToString(closureAttempts),
                                         " of ", ToString(MAX_INTERVIEW_ATTEMPTS), ")">>)]

\* handleFailedAttempt; closureAttempts is the attempts value of the render
\* whose callback is running
handleFailedAttempt(c, message, closureAttempts) ==
  LET nextAttempt == closureAttempts + 1
  IN  IF nextAttempt >= MAX_INTERVIEW_ATTEMPTS
      THEN [c EXCEPT !.step = "upload",
                     !.error = Str(NotEnoughInformationMessage),
                     !.state = null,
                     !.clarification = null,
                     !.attempts = 0]
      ELSE [c EXCEPT !.attempts = nextAttempt,
                     !.clarification =
                        Str(message \o <<"\n\n", "(Attempt ", ToString(nextAttempt),
                                         " of ", ToString(MAX_INTERVIEW_ATTEMPTS), ")">>)]

\* Variant: loading is not raised for the round.
handleInterviewStart_NoLoading(c) == [c EXCEPT !.clarification = null]

\* Variant: the clarification of the round before is not cleared.
handleInterviewStart_KeepsClarification(c) == [c EXCEPT !.loading = TRUE]

\* handleInterview up to the await (its guard `if (!state) return` is the
\* caller's: see Submit)
handleInterviewStart(c) == [c EXCEPT !.loading = TRUE, !.clarification = null]

\* the calls of submitInterview in one run of handleInterview up to the
\* await: the one of the try block, unless the guard returned
handleInterviewCalls(c) == IF c.state = null THEN 0 ELSE 1

\* Variant: a thrown error is retried once without the user.
handleInterviewRetries_OnThrow(p) == IF p.settled = "rejected" THEN 1 ELSE 0

\* the calls of submitInterview after the await: no branch, of the try
\* block or of catch and finally, calls again
handleInterviewRetries(p) == 0

\* Variant: costs that do not reconcile with the receipt total are a failed
\* round.
handleInterviewSettled_Reconciles(c, p, closureAttempts) ==
  LET done ==
        IF p.settled = "fulfilled"
        THEN LET s == p.value.state
                 c1 == [c EXCEPT !.state = s]
             IN  IF Len(s.pending_questions) > 0
                 THEN handleFailedAttempt(c1, Join(s.pending_questions, <<"\n\n">>),
                                          closureAttempts)
                 ELSE IF /\ s.final_costs # null /\ Len(s.final_costs.arr) > 0
                         /\ (s.totals = null
                               \/ TotalsMatch(SumOwed(s.final_costs.arr),
                                              s.totals.grand_total))
                 THEN [c1 EXCEPT !.step = "results"]
                 ELSE handleFailedAttempt(c1, ComputeFailedMessage, closureAttempts)
        ELSE handleFailedAttempt(c,
               <<"Error: ">> \o MessageOf(p.reason, <<"Submission failed">>)
                             \o <<". Please try again.">>,
               closureAttempts)
  IN  [done EXCEPT !.loading = FALSE]

\* Variant: a thrown error also drops the state.
handleInterviewSettled_ErrorClearsState(c, p, closureAttempts) ==
  LET done ==
        IF p.settled = "fulfilled"
        THEN LET s == p.value.state
                 c1 == [c EXCEPT !.state = s]
             IN  IF Len(s.pending_questions) > 0
                 THEN handleFailedAttempt(c1, Join(s.pending_questions, <<"\n\n">>),
                                          closureAttempts)
                 ELSE IF s.final_costs # null /\ Len(s.final_costs.arr) > 0
                 THEN [c1 EXCEPT !.step = "results"]
                 ELSE handleFailedAttempt(c1, ComputeFailedMessage, closureAttempts)
        ELSE handleFailedAttempt([c EXCEPT !.state = null],
               <<"Error: ">> \o MessageOf(p.reason, <<"Submission failed">>)
                             \o <<". Please try again.">>,
               closureAttempts)
  IN  [done EXCEPT !.loading = FALSE]

\* Variant: a thrown error is shown but does not consume an attempt.
handleInterviewSettled_ErrorNotCounted(c, p, closureAttempts) ==
  LET done ==
        IF p.settled = "fulfilled"
        THEN LET s == p.value.state
                 c1 == [c EXCEPT !.state = s]
             IN  IF Len(s.pending_questions) > 0
                 THEN handleFailedAttempt(c1, Join(s.pending_questions, <<"\n\n">>),
                                          closureAttempts)
                 ELSE IF s.final_costs # null /\ Len(s.final_costs.arr) > 0
                 THEN [c1 EXCEPT !.step = "results"]
                 ELSE handleFailedAttempt(c1, ComputeFailedMessage, closureAttempts)
        ELSE [c EXCEPT !.clarification =
                 Str(<<"Error: ">> \o MessageOf(p.reason, <<"Submission failed">>)
                                   \o <<". Please try again.">>)]
  IN  [done EXCEPT !.loading = FALSE]

\* Variant: an empty final_costs list counts as a result.
handleInterviewSettled_AcceptsEmptyCosts(c, p, closureAttempts) ==
  LET done ==
        IF p.settled = "fulfilled"
        THEN LET s == p.value.state
                 c1 == [c EXCEPT !.state = s]
             IN  IF Len(s.pending_questions) > 0
                 THEN handleFailedAttempt(c1, Join(s.pending_questions, <<"\n\n">>),
                                          closureAttempts)
                 ELSE IF s.final_costs # null
                 THEN [c1 EXCEPT !.step = "results"]
                 ELSE handleFailedAttempt(c1, ComputeFailedMessage, closureAttempts)
        ELSE handleFailedAttempt(c,
               <<"Error: ">> \o MessageOf(p.reason, <<"Submission failed">>)
                             \o <<". Please try again.">>,
               closureAttempts)
  IN  [done EXCEPT !.loading = FALSE]

\* Variant: loading is released at the end of the try block, not in finally.
handleInterviewSettled_NoFinally(c, p, closureAttempts) ==
  IF p.settled = "fulfilled"
  THEN LET s == p.value.state
           c1 == [c EXCEPT !.state = s, !.loading = FALSE]
       IN  IF Len(s.pending_questions) > 0
           THEN handleFailedAttempt(c1, Join(s.pending_questions, <<"\n\n">>),
                                    closureAttempts)
           ELSE IF s.final_costs # null /\ Len(s.final_costs.arr) > 0
           THEN [c1 EXCEPT !.step = "results"]
           ELSE handleFailedAttempt(c1, ComputeFailedMessage, closureAttempts)
  ELSE handleFailedAttempt(c,
         <<"Error: ">> \o MessageOf(p.reason, <<"Submission failed">>)
                       \o <<". Please try again.">>,
         closureAttempts)

\* Variant: the gate is applied to the state a round returns.
handleInterviewSettled_RerunsGate(c, p, closureAttempts) ==
  LET done ==
        IF p.settled = "fulfilled"
        THEN LET s == p.value.state
                 c1 == [c EXCEPT !.state = s]
             IN  IF isReceiptTooPoor(s)
                 THEN [c EXCEPT !.step = "upload", !.state = null,
                                !.clarification = null, !.attempts = 0,
                                !.error = Str(GateRejectMessage)]
                 ELSE IF Len(s.pending_questions) > 0
                 THEN handleFailedAttempt(c1, Join(s.pending_questions, <<"\n\n">>),
                                          closureAttempts)
                 ELSE IF s.final_costs # null /\ Len(s.final_costs.arr) > 0
                 THEN [c1 EXCEPT !.step = "results"]
                 ELSE handleFailedAttempt(c1, ComputeFailedMessage, closureAttempts)
        ELSE handleFailedAttempt(c,
               <<"Error: ">> \o MessageOf(p.reason, <<"Submission failed">>)
                             \o <<". Please try again.">>,
               closureAttempts)
  IN  [done EXCEPT !.loading = FALSE]

\* handleInterview from the await on; p is the settled submitInterview promise
handleInterviewSettled(c, p, closureAttempts) ==
  LET done ==
        IF p.settled = "fulfilled"
        THEN LET s == p.value.state
                 c1 == [c EXCEPT !.state = s]
             IN  IF Len(s.pending_questions) > 0
                 THEN handleFailedAttempt(c1, Join(s.pending_questions, <<"\n\n">>),
                                          closureAttempts)
                 ELSE IF s.final_costs # null /\ Len(s.final_costs.arr) > 0
                 THEN [c1 EXCEPT !.step = "results"]
                 ELSE handleFailedAttempt(c1, ComputeFailedMessage, closureAttempts)
        ELSE handleFailedAttempt(c,
               <<"Error: ">> \o MessageOf(p.reason, <<"Submission failed">>)
                             \o <<". Please try again.">>,
               closureAttempts)
  IN  [done EXCEPT !.loading = FALSE]

\* Variant: the attempts counter is not reset.
handleStartOver_KeepsAttempts(c) ==
  [c EXCEPT !.step = "upload", !.loading = FALSE, !.error = null,
            !.state = null, !.clarification = null]

handleStartOver(c) ==
  [c EXCEPT !.step = "upload", !.loading = FALSE, !.error = null,
            !.state = null, !.clarification = null, !.attempts = 0]

(***************************************************************************)
(* Actions: user events on the rendered controls, and settled requests     *)
(***************************************************************************)
\* History only (never read by a handler): last is the handler run that led
\* to the current state, with the step and attempts it started from;
\* calls and submissions count, since the last upload was started, the
\* calls of submitInterview and the submissions ReviewStep.handleSubmit
\* passed on;
\* failedRounds counts the rounds of the current session (since Review was
\* entered) that did not end in a usable cost list.
Pre == [step |-> step, attempts |-> attempts]

RoundSucceeded(p) ==
  /\ p.settled = "fulfilled"
  /\ Len(p.value.state.pending_questions) = 0
  /\ p.value.state.final_costs # null
  /\ Len(p.value.state.final_costs.arr) > 0

RoundFailed(p) == ~RoundSucceeded(p)

CountRound(n) == IF n < MaxCountedRounds THEN n + 1 ELSE n

TextInputs == {<<>>, <<" ">>, <<" ", "Alice had the burger", "\n">>}

\* typing in the text box of ReviewStep (disabled while loading)
TypeText(t) ==
  /\ ReviewMounted(Cells)
  /\ ~loading
  /\ t # text
  /\ Commit(Cells, t)
  /\ pending' = pending
  /\ last' = [op |-> "TypeText"]
  /\ failedRounds' = failedRounds
  /\ UNCHANGED <<calls, submissions>>

\* UploadStep.handleFileChange / handleDrop -> handleUpload
Upload ==
  /\ UploadMounted(Cells)
  /\ Commit(handleUploadStart(Cells), text)
  /\ pending' = [kind |-> "upload"]
  /\ last' = [op |-> "Upload"]
  /\ failedRounds' = 0
  /\ calls' = 0
  /\ submissions' = 0

\* the awaited uploadReceipt settles on one of the fetch outcomes
UploadSettledOn(outcomes) ==
  \E res \in outcomes :
     LET p == uploadReceipt(res)
     IN  /\ Commit(handleUploadSettled(Cells, p), text)
         /\ pending' = NoRequest
         /\ last' = [op |-> "UploadSettled", promise |-> p, pre |-> Pre]
         /\ failedRounds' = 0
         /\ UNCHANGED <<calls, submissions>>

UploadSettled ==
  /\ pending.kind = "upload"
  /\ UploadSettledOn(FetchOutcomes(UploadStates))

\* ReviewStep "Split the Bill" button -> handleSubmit -> handleInterview
Submit ==
  /\ ReviewMounted(Cells)
  /\ ~(loading \/ Trim(text) = <<>>)
  /\ Commit(handleInterviewStart(Cells), text)
  /\ pending' = [kind |-> "interview", thread_id |-> state.thread_id,
                 text |-> Trim(text), attempts |-> attempts]
  /\ last' = [op |-> "Submit"]
  /\ failedRounds' = failedRounds
  /\ submissions' = CountRound(submissions)
  /\ calls' = IF handleInterviewCalls(Cells) > 0 THEN CountRound(calls) ELSE calls

\* the awaited submitInterview settles on one of the fetch outcomes
InterviewSettledOn(outcomes) ==
  \E res \in outcomes :
     LET p == submitInterview(res)
     IN  /\ Commit(handleInterviewSettled(Cells, p, pending.attempts), text)
         /\ pending' = IF handleInterviewRetries(p) > 0 THEN pending ELSE NoRequest
         /\ last' = [op |-> "InterviewSettled", promise |-> p, pre |-> Pre]
         /\ failedRounds' = IF RoundFailed(p) THEN CountRound(failedRounds)
                             ELSE failedRounds
         /\ calls' = IF handleInterviewRetries(p) > 0 THEN CountRound(calls) ELSE calls
         /\ submissions' = submissions

InterviewSettled ==
  /\ pending.kind = "interview"
  /\ InterviewSettledOn(FetchOutcomes(InterviewStates(pending.thread_id)))

\* the same against the backend of spec.md
InterviewSettledByBackend ==
  /\ pending.kind = "interview"
  /\ state # null
  /\ InterviewSettledOn(FetchOutcomes(BackendRoundStates(state)))

\* ReviewStep "Upload Different Receipt" button (disabled while loading)
Cancel ==
  /\ ReviewMounted(Cells)
  /\ ~loading
  /\ Commit(handleStartOver(Cells), text)
  /\ pending' = pending
  /\ last' = [op |-> "Cancel", pre |-> Pre]
  /\ failedRounds' = 0
  /\ UNCHANGED <<calls, submissions>>

\* ResultsStep "Start Over" button
StartOver ==
  /\ ResultsMounted(Cells)
  /\ Commit(handleStartOver(Cells), text)
  /\ pending' = pending
  /\ last' = [op |-> "StartOver", pre |-> Pre]
  /\ failedRounds' = 0
  /\ UNCHANGED <<calls, submissions>>

Next ==
  \/ \E t \in TextInputs : TypeText(t)
  \/ Upload
  \/ UploadSettled
  \/ Submit
  \/ InterviewSettled
  \/ Cancel
  \/ StartOver

Spec == Init /\ [][Next]_vars

\* The user keeps submitting (types an answer when the box is blank, and
\* presses the button again and again) and every request in flight settles.
Answer == <<" ", "Alice had the burger", "\n">>

\* the kinds of response an upload and a round can have
FewUploadStates ==
  {s \in UploadStates : /\ Len(s.items) \in {0, 2}
                        /\ Len(s.pending_questions) <= 1}

FewInterviewStates(tid) ==
  {s \in InterviewStates(tid) :
     /\ Len(s.items) = 1
     /\ s.totals # null
     /\ Len(s.pending_questions) <= 1
     /\ s.final_costs \in {null, Arr(<<>>)} \/ SumOwed(s.final_costs.arr) = 3840}

UploadSettledFew ==
  /\ pending.kind = "upload"
  /\ UploadSettledOn(FetchOutcomes(FewUploadStates))

InterviewSettledFew ==
  /\ pending.kind = "interview"
  /\ InterviewSettledOn(FetchOutcomes(FewInterviewStates(pending.thread_id)))

NextLive ==
  \/ \E t \in TextInputs : TypeText(t)
  \/ Upload
  \/ UploadSettledFew
  \/ Submit
  \/ InterviewSettledFew
  \/ Cancel
  \/ StartOver

Fairness ==
  /\ WF_vars(TypeText(Answer))
  /\ SF_vars(Submit)
  /\ WF_vars(InterviewSettledFew)

SpecLive == Init /\ [][NextLive]_vars /\ Fairness

NextWithBackend ==
  \/ \E t \in TextInputs : TypeText(t)
  \/ Upload
  \/ UploadSettled
  \/ Submit
  \/ InterviewSettledByBackend
  \/ Cancel
  \/ StartOver

SpecBackend == Init /\ [][NextWithBackend]_vars

(***************************************************************************)
(* Statements run against the store                                        *)
(***************************************************************************)
\* the cells of the page, which no statement touches
page == <<step, loading, error, state, clarification, attempts,
          text, pending, last, failedRounds, calls, submissions>>

InsertReceipt ==
  \E v \in ReceiptValues :
     /\ db' = insert_receipts(db, v)
     /\ UNCHANGED page

UpdateReceipt ==
  \E v \in ReceiptValues :
     /\ db' = update_receipts(db, v)
     /\ UNCHANGED page

DeleteReceipt ==
  \E id \in ReceiptIds :
     /\ db' = delete_receipts(db, id)
     /\ UNCHANGED page

InsertParticipant ==
  \E v \in ParticipantValues :
     /\ db' = insert_participants(db, v)
     /\ UNCHANGED page

DeleteParticipant ==
  \E id \in ParticipantIds :
     /\ db' = delete_participants(db, id)
     /\ UNCHANGED page

InsertItem ==
  \E v \in ItemValues :
     /\ db' = insert_receipt_items(db, v)
     /\ UNCHANGED page

DeleteItem ==
  \E id \in ItemIds :
     /\ db' = delete_receipt_items(db, id)
     /\ UNCHANGED page

InsertAssignment ==
  \E v \in AssignmentValues :
     /\ db' = insert_assignments(db, v)
     /\ UNCHANGED page

UpdateAssignment ==
  \E v \in AssignmentValues :
     /\ db' = update_assignments(db, v)
     /\ UNCHANGED page

MoveAssignment ==
  \E item \in ItemIds, from \in ParticipantIds, to \in ParticipantIds :
     /\ db' = move_assignments(db, item, from, to)
     /\ UNCHANGED page

DeleteAssignment ==
  \E item \in ItemIds, p \in ParticipantIds :
     /\ db' = delete_assignments(db, item, p)
     /\ UNCHANGED page

InsertAudit ==
  /\ db.audit_logs_id_seq < MaxAuditEvents
  /\ \E v \in AuditValues :
        /\ db' = insert_audit_logs(db, v)
        /\ UNCHANGED page

RunSchema ==
  /\ db' = run_schema(db)
  /\ UNCHANGED page

NextDb ==
  \/ InsertReceipt
  \/ UpdateReceipt
  \/ DeleteReceipt
  \/ InsertParticipant
  \/ DeleteParticipant
  \/ InsertItem
  \/ DeleteItem
  \/ InsertAssignment
  \/ UpdateAssignment
  \/ MoveAssignment
  \/ DeleteAssignment
  \/ InsertAudit
  \/ RunSchema

SpecDb == Init /\ [][NextDb]_vars

(***************************************************************************)
(* Properties                                                              *)
(***************************************************************************)
AfterRound == last.op = "InterviewSettled"

AfterFailedRound == AfterRound /\ RoundFailed(last.promise)

AfterUploadResponse ==
  last.op = "UploadSettled" /\ last.promise.settled = "fulfilled"

EndsWith(s, suffix) ==
  Len(s) >= Len(suffix) /\ SubSeq(s, Len(s) - Len(suffix) + 1, Len(s)) = suffix

AttemptAnnotation(k) == <<"\n\n", "(Attempt ", ToString(k), " of ", "3", ")">>

\* the text of a failed round: every pending question, or the error message
CarriesFailureText(txt, p) ==
  IF p.settled = "rejected" THEN Includes(txt, p.reason.message)
  ELSE IF Len(p.value.state.pending_questions) > 0
  THEN \A i \in 1..Len(p.value.state.pending_questions) :
          Includes(txt, p.value.state.pending_questions[i])
  ELSE Includes(txt, ComputeFailedMessage)

\* C1: the third failed round since entering Review moves Review to Upload,
\* clears the session state and the clarification, leaves attempts at 0 and
\* reports the "not enough information" error.
C1_ThirdFailureResets ==
  (AfterFailedRound /\ failedRounds = 3) =>
     /\ last.pre.step = "review"
     /\ step = "upload"
     /\ state = null
     /\ clarification = null
     /\ attempts = 0
     /\ error = Str(NotEnoughInformationMessage)

C1_Witness ==
  /\ AfterFailedRound
  /\ failedRounds = 3
  /\ last.pre.step = "review"
  /\ step = "upload"

\* C2: after the k-th failed round, k in {1, 2}, the session is still in
\* Review with its state present, attempts = k, and the clarification is the
\* failure text annotated with "(Attempt k of 3)".
C2_FirstTwoFailuresStayInReview ==
  \A k \in {1, 2} :
     (AfterFailedRound /\ failedRounds = k) =>
        /\ step = "review"
        /\ state # null
        /\ attempts = k
        /\ clarification # null
        /\ EndsWith(clarification.str, AttemptAnnotation(k))
        /\ CarriesFailureText(clarification.str, last.promise)

C2_Witness ==
  /\ AfterFailedRound
  /\ failedRounds = 2
  /\ step = "review"
  /\ last.promise.settled = "fulfilled"
  /\ Len(last.promise.value.state.pending_questions) = 2

\* C3: a round ends in Results exactly when the response has no pending
\* questions and a non-empty final cost list; then no attempt is consumed and
\* the state holds the response's costs.  Every other outcome consumes one
\* attempt (the third one resets the counter with the session) and does not
\* reach Results.
C3_ResultsExactlyOnUsableCosts ==
  AfterRound =>
     /\ last.pre.step = "review"
     /\ (step = "results") <=> RoundSucceeded(last.promise)
     /\ RoundSucceeded(last.promise) =>
           /\ attempts = last.pre.attempts
           /\ state # null
           /\ state.final_costs = last.promise.value.state.final_costs
     /\ RoundFailed(last.promise) =>
           /\ step # "results"
           /\ IF last.pre.attempts + 1 < 3
              THEN attempts = last.pre.attempts + 1
              ELSE attempts = 0 /\ step = "upload"

C3_Witness ==
  /\ AfterRound
  /\ RoundSucceeded(last.promise)
  /\ step = "results"
  /\ last.pre.attempts = 2
  /\ attempts = 2

(***************************************************************************)
(* Quality gate and upload                                                 *)
(***************************************************************************)
UploadedState == last.promise.value.state

\* what a diagnostic message says, read off the catalogue
SignalsExtractionFailure(m) == m \in {Messages[1], Messages[3]}

FlagsLowConfidence(m) == m \in {Messages[2], Messages[3]}

LowConfidenceFlags(pq) ==
  Cardinality({i \in 1..Len(pq) : FlagsLowConfidence(pq[i])})

HardFailure(pq) == Len(pq) = 1 /\ SignalsExtractionFailure(pq[1])

\* what the user sees after the gate rejected / accepted the upload
GateRejected ==
  step = "upload" /\ state = null /\ error = Str(GateRejectMessage)

GateAccepted == step = "review" /\ state = UploadedState

\* C4: an extraction with zero items is rejected whatever diagnostics come
\* with it.
C4_EmptyExtractionRejected ==
  (AfterUploadResponse /\ Len(UploadedState.items) = 0) =>
     isReceiptTooPoor(UploadedState) /\ GateRejected

C4_Witness ==
  /\ AfterUploadResponse
  /\ Len(UploadedState.items) = 0
  /\ Len(UploadedState.pending_questions) = 2
  /\ LowConfidenceFlags(UploadedState.pending_questions) = 0
  /\ GateRejected

\* C5: with N >= 1 items and no hard failure, the gate rejects exactly when
\* flagCount / (3 * N) >= 0.5 (inclusive boundary), and accepts otherwise.
C5_LowConfidenceMajority ==
  (/\ AfterUploadResponse
   /\ Len(UploadedState.items) >= 1
   /\ ~HardFailure(UploadedState.pending_questions)) =>
     LET n == Len(UploadedState.items)
         flags == LowConfidenceFlags(UploadedState.pending_questions)
     IN  /\ isReceiptTooPoor(UploadedState) <=> (2 * flags >= 3 * n)
         /\ (2 * flags >= 3 * n) => GateRejected
         /\ (2 * flags < 3 * n) => GateAccepted

C5_Witness ==
  /\ AfterUploadResponse
  /\ Len(UploadedState.items) = 4
  /\ Len(UploadedState.pending_questions) = 6
  /\ LowConfidenceFlags(UploadedState.pending_questions) = 6
  /\ GateRejected

C5_AcceptedBelowHalf ==
  /\ AfterUploadResponse
  /\ Len(UploadedState.items) = 4
  /\ LowConfidenceFlags(UploadedState.pending_questions) = 3
  /\ GateAccepted

\* C6: a single diagnostic that signals extraction failure rejects whatever
\* the number of items; among two or more diagnostics such a message does not
\* count and the empty-extraction and low-confidence rules decide.
C6_HardFailure ==
  AfterUploadResponse =>
     LET pq == UploadedState.pending_questions
         n == Len(UploadedState.items)
     IN  /\ HardFailure(pq) => isReceiptTooPoor(UploadedState) /\ GateRejected
         /\ Len(pq) >= 2 =>
               /\ isReceiptTooPoor(UploadedState)
                     <=> (n = 0 \/ 2 * LowConfidenceFlags(pq) >= 3 * n)
               /\ GateRejected <=> (n = 0 \/ 2 * LowConfidenceFlags(pq) >= 3 * n)

C6_Witness ==
  /\ AfterUploadResponse
  /\ UploadedState.pending_questions = <<Messages[1]>>
  /\ Len(UploadedState.items) = 4
  /\ GateRejected

C6_FailureAmongSeveralAccepted ==
  /\ AfterUploadResponse
  /\ UploadedState.pending_questions = <<Messages[1], Messages[4]>>
  /\ Len(UploadedState.items) = 1
  /\ GateAccepted

\* C7: when the gate rejects, the phase stays Upload, no state is created,
\* attempts stays 0, no clarification is set, the reject reason is the error
\* and loading is released.
C7_RejectLeavesUpload ==
  (AfterUploadResponse /\ isReceiptTooPoor(UploadedState)) =>
     /\ last.pre.step = "upload"
     /\ last.pre.attempts = 0
     /\ step = "upload"
     /\ state = null
     /\ attempts = 0
     /\ clarification = null
     /\ error = Str(GateRejectMessage)
     /\ loading = FALSE
     /\ pending = NoRequest

C7_Witness ==
  /\ AfterUploadResponse
  /\ isReceiptTooPoor(UploadedState)
  /\ Len(UploadedState.items) = 2
  /\ LowConfidenceFlags(UploadedState.pending_questions) = 3
  /\ step = "upload"
  /\ error # null
  /\ loading = FALSE

\* C8: when the upload succeeds and the gate accepts, the phase moves from
\* Upload to Review, the state is the one the extraction returned, no error
\* is shown and attempts is 0.
C8_AcceptEntersReview ==
  (AfterUploadResponse /\ ~isReceiptTooPoor(UploadedState)) =>
     /\ last.pre.step = "upload"
     /\ step = "review"
     /\ state = UploadedState
     /\ state.items = UploadedState.items
     /\ state.totals = UploadedState.totals
     /\ state.thread_id = UploadedState.thread_id
     /\ error = null
     /\ attempts = 0
     /\ loading = FALSE

C8_Witness ==
  /\ AfterUploadResponse
  /\ ~isReceiptTooPoor(UploadedState)
  /\ step = "review"
  /\ state # null
  /\ state.thread_id = "t2"
  /\ Len(state.items) = 3
  /\ Len(state.pending_questions) = 1

(***************************************************************************)
(* Failed requests, and Results                                            *)
(***************************************************************************)
\* C9: a round whose submitInterview call throws is one failed attempt:
\* attempts grows by exactly one and the clarification carries the error
\* message, or, if it was the third failure, the session resets to Upload.
C9_ThrownRoundIsOneFailedAttempt ==
  (AfterRound /\ last.promise.settled = "rejected") =>
     /\ RoundFailed(last.promise)
     /\ IF last.pre.attempts + 1 < 3
        THEN /\ step = "review"
             /\ state # null
             /\ attempts = last.pre.attempts + 1
             /\ failedRounds = attempts
             /\ clarification # null
             /\ Includes(clarification.str, last.promise.reason.message)
        ELSE /\ step = "upload"
             /\ state = null
             /\ attempts = 0
             /\ failedRounds = 3

C9_Witness ==
  /\ AfterRound
  /\ last.promise.settled = "rejected"
  /\ last.promise.reason.message = <<"Interview submission failed (", "500", ")">>
  /\ last.pre.attempts = 1
  /\ attempts = 2
  /\ step = "review"

C9_ThirdThrowResets ==
  /\ AfterRound
  /\ last.promise.settled = "rejected"
  /\ last.pre.attempts = 2
  /\ step = "upload"

\* C10: once the phase is Results it stays Results until Start Over, which
\* re-enters Upload with state, error, clarification, loading and attempts
\* cleared; no request is in flight that could move the phase.
C10_ResultsTerminal ==
  [][step = "results" =>
       \/ step' = "results" /\ pending' = NoRequest
       \/ /\ last'.op = "StartOver"
          /\ step' = "upload"
          /\ state' = null
          /\ error' = null
          /\ clarification' = null
          /\ loading' = FALSE
          /\ attempts' = 0]_vars

C10_Witness ==
  /\ last.op = "StartOver"
  /\ step = "upload"
  /\ state = null
  /\ attempts = 0

(***************************************************************************)
(* The attempts counter and the single request in flight                   *)
(***************************************************************************)
\* C11: attempts is 0 whenever the phase is Upload, hence 0 whenever Review
\* is entered: a new session never inherits failed attempts.
C11_AttemptsZeroInUpload ==
  /\ step = "upload" => attempts = 0
  /\ (AfterUploadResponse /\ step = "review") => attempts = 0 /\ failedRounds = 0

C11_Witness ==
  /\ last.op = "Cancel"
  /\ last.pre.step = "review"
  /\ last.pre.attempts = 2
  /\ step = "upload"
  /\ attempts = 0

\* C12: while a round is awaited, loading is set and no submission, typing,
\* cancel or upload can start; the round settles against the attempts value
\* it was started with, so no failed round's increment is lost.
C12_OneSubmissionInFlight ==
  /\ pending.kind = "interview" =>
        /\ loading
        /\ step = "review"
        /\ state # null
        /\ pending.thread_id = state.thread_id
        /\ pending.attempts = attempts
        /\ ~ENABLED Submit
        /\ ~ENABLED Cancel
        /\ ~ENABLED StartOver
        /\ ~ENABLED Upload
        /\ \A t \in TextInputs : ~ENABLED TypeText(t)
  /\ pending.kind = "upload" => loading /\ ~ENABLED Upload /\ ~ENABLED Submit
  /\ loading => pending # NoRequest
  /\ step = "review" => attempts = failedRounds

C12_Witness ==
  /\ pending.kind = "interview"
  /\ pending.attempts = 2
  /\ loading
  /\ failedRounds = 2

(***************************************************************************)
(* Reconciliation                                                          *)
(***************************************************************************)
\* what ResultsStep shows in its validation row, when it is rendered
ShownResults == ResultsStep(state.final_costs.arr, state.totals)

\* |sum of total_owed - grand_total| of a state with totals, in cents
Discrepancy(s) == Abs(SumOwed(s.final_costs.arr) - s.totals.grand_total)

\* C13 as stated: whenever the session is in Results, the sum of total_owed
\* is within 0.06 of the receipt's grand_total.
C13_ResultsWithinTolerance ==
  (step = "results" /\ state # null /\ state.final_costs # null
      /\ state.totals # null) => Discrepancy(state) <= 6

\* C13 as amended: a round whose response has no pending questions and a
\* non-empty cost list enters Results without consuming an attempt also
\* when the costs differ from grand_total by more than 0.06; the mismatch is
\* shown by the results view as a discrepancy.
C13_MismatchEntersResults ==
  (/\ AfterRound
   /\ RoundSucceeded(last.promise)
   /\ last.promise.value.state.totals # null
   /\ Discrepancy(last.promise.value.state) > 6) =>
     /\ step = "results"
     /\ attempts = last.pre.attempts
     /\ failedRounds = last.pre.attempts
     /\ state = last.promise.value.state
     /\ ResultsMounted(Cells)
     /\ ShownResults.verdict = "differ"

C13_Witness ==
  /\ AfterRound
  /\ RoundSucceeded(last.promise)
  /\ step = "results"
  /\ state.totals # null
  /\ Discrepancy(state) = 7
  /\ ShownResults.sumOfShares = 3847
  /\ ShownResults.receiptTotal = 3840

\* C14 as stated: the results view reports a match whenever the difference
\* is at most 6 cents and a discrepancy only when it is more than 6 cents.
C14_MatchWithinTolerance ==
  (ResultsMounted(Cells) /\ state.totals # null) =>
     /\ Discrepancy(state) <= 6 => ShownResults.verdict = "match"
     /\ ShownResults.verdict = "differ" => Discrepancy(state) > 6

\* what the view does: match below 6 cents, discrepancy from 6 cents on
C14_MatchBelowTolerance ==
  (ResultsMounted(Cells) /\ state.totals # null) =>
     (ShownResults.verdict = "match" <=> Discrepancy(state) < 6)

C14_BoundaryShownAsDiscrepancy ==
  /\ ResultsMounted(Cells)
  /\ state.totals # null
  /\ Discrepancy(state) = 6
  /\ ShownResults.verdict = "differ"

(***************************************************************************)
(* Against the backend of spec.md                                          *)
(***************************************************************************)
\* the shares recorded for the item numbered index, one list per entry
SharesRecorded(s, index) ==
  {s.assignments[k].shares :
     k \in {j \in 1..Len(s.assignments) : s.assignments[j].item_index = index}}

C18_WitnessThrown ==
  /\ AfterFailedRound
  /\ step = "review"
  /\ last.promise.settled = "rejected"
  /\ Len(state.items) = 3

(***************************************************************************)
(* The store                                                               *)
(***************************************************************************)
\* what a statement on receipts would store breaks the totals rule
ReceiptViolates(v) ==
  LET r == receipts_row(v)
  IN  \/ r.subtotal < 0 \/ r.tax_total < 0 \/ r.tip_total < 0
      \/ r.fees_total < 0 \/ r.grand_total < 0
      \/ r.grand_total # r.subtotal + r.tax_total + r.tip_total + r.fees_total

\* what a statement on assignments would store is outside [0, 1]
FractionViolates(v) == Numeric(v.fraction) < 0 \/ Numeric(v.fraction) > 100000

SameKey(a, b) == a.item_id = b.item_id /\ a.participant_id = b.participant_id

\* C16: every stored receipt has five amounts >= 0 with grand_total equal
\* to the sum of the other four, every stored assignment has a fraction in
\* [0,1] and is the only row of its (item, participant); a write that would
\* break one of these leaves the store as it was.
C16_StorageBoundary ==
  /\ \A r \in db.receipts :
        /\ r.subtotal >= 0 /\ r.tax_total >= 0 /\ r.tip_total >= 0
        /\ r.fees_total >= 0 /\ r.grand_total >= 0
        /\ r.grand_total = r.subtotal + r.tax_total + r.tip_total + r.fees_total
  /\ \A a \in db.assignments :
        /\ a.fraction >= 0 /\ a.fraction <= 100000
        /\ \A b \in db.assignments : SameKey(a, b) => a = b
  /\ \A v \in ReceiptValues :
        ReceiptViolates(v) =>
           insert_receipts(db, v) = db /\ update_receipts(db, v) = db
  /\ \A v \in AssignmentValues :
        /\ FractionViolates(v) =>
              insert_assignments(db, v) = db /\ update_assignments(db, v) = db
        /\ (\E a \in db.assignments : SameKey(a, v)) => insert_assignments(db, v) = db
  /\ \A a \in db.assignments, to \in ParticipantIds :
        (to # a.participant_id /\ \E b \in db.assignments :
                                     b.item_id = a.item_id /\ b.participant_id = to)
           => move_assignments(db, a.item_id, a.participant_id, to) = db

C16_Witness ==
  /\ \E r \in db.receipts : r.subtotal = 1000 /\ r.tax_total = 100 /\ r.grand_total = 1100
  /\ Cardinality(db.assignments) = 2
  /\ \E a \in db.assignments : a.fraction = 50000
  /\ \E a \in db.assignments : a.fraction = 100000
  /\ \E v \in ReceiptValues :
        v.id \in Ids(db.receipts) /\ ReceiptViolates(v) /\ update_receipts(db, v) = db

C17_AuditKeptWithReceipt ==
  [][\A e \in db.audit_logs :
        e.receipt_id \in Ids(db'.receipts) => e \in db'.audit_logs]_vars

C17_AuditRecorded ==
  /\ Cardinality(db.audit_logs) = 2
  /\ Cardinality(db.assignments) = 1

(***************************************************************************)
(* Bounded dialogue                                                        *)
(***************************************************************************)
\* C19: a session in Review has completed at most 2 rounds since it entered
\* Review, so the third completed round has left Review; and with a user
\* who keeps submitting and requests that settle, every session in Review
\* reaches Results or Upload.
C19_BoundedDialogue ==
  /\ [](step = "review" => failedRounds <= 2 /\ attempts <= 2)
  /\ [](AfterRound /\ last.pre.attempts >= 2 => step \in {"results", "upload"})
  /\ (step = "review") ~> (step \in {"results", "upload"})

C19_Witness ==
  /\ AfterRound
  /\ last.pre.attempts = 2
  /\ RoundFailed(last.promise)
  /\ last.promise.settled = "fulfilled"
  /\ Len(last.promise.value.state.pending_questions) = 1
  /\ step = "upload"
  /\ failedRounds = 3

C19_ThirdRoundSucceeds ==
  /\ AfterRound
  /\ last.pre.attempts = 2
  /\ step = "results"

(***************************************************************************)
(* The gate and the interview                                              *)
(***************************************************************************)
\* the state returned by the round is one the gate would reject
RoundResponsePoor ==
  /\ AfterRound
  /\ last.promise.settled = "fulfilled"
  /\ LET s == last.promise.value.state
     IN  \/ Len(s.items) = 0
         \/ 2 * LowConfidenceFlags(s.pending_questions) >= 3 * Len(s.items)

\* C20: a round's response with zero items or a low-confidence ratio of at
\* least 50% is treated like any other response (the gate's rejection never
\* appears after a round), and Review is left for Upload only by the third
\* failed round or by the user's reset.
C20_GateOnlyOnUpload ==
  /\ [](RoundResponsePoor =>
          /\ error # Str(GateRejectMessage)
          /\ RoundSucceeded(last.promise) => step = "results" /\ state = last.promise.value.state
          /\ (RoundFailed(last.promise) /\ last.pre.attempts < 2) =>
                step = "review" /\ state = last.promise.value.state
                                /\ attempts = last.pre.attempts + 1)
  /\ [][(step = "review" /\ step' = "upload") =>
          \/ last'.op = "Cancel"
          \/ /\ last'.op = "InterviewSettled"
             /\ RoundFailed(last'.promise)
             /\ attempts = 2
             /\ error' = Str(NotEnoughInformationMessage)]_vars
  /\ [](error = Str(GateRejectMessage) =>
          step = "upload" /\ last.op = "UploadSettled")

C20_Witness ==
  /\ RoundResponsePoor
  /\ Len(last.promise.value.state.items) = 0
  /\ step = "results"

C20_WitnessRatio ==
  /\ RoundResponsePoor
  /\ Len(last.promise.value.state.items) = 1
  /\ LowConfidenceFlags(last.promise.value.state.pending_questions) = 2
  /\ step = "review"
  /\ attempts = 1

(***************************************************************************)
(* Calls of the interview                                                  *)
(***************************************************************************)
\* C21: the interview is called once per submission of the user and not
\* again until the next submission: the calls made equal the submissions
\* accepted, a call starts only in the step that accepts a submission, and
\* after a failed round no request is in flight.
C21_NoSilentRetry ==
  /\ [](calls = submissions)
  /\ [](AfterFailedRound => pending = NoRequest /\ ~loading)
  /\ [][submissions' = submissions + 1 =>
          /\ calls' = calls + 1
          /\ pending.kind = "none"
          /\ pending'.kind = "interview"
          /\ pending'.text = Trim(text)
          /\ Trim(text) # <<>>]_vars
  /\ [][(calls' # calls /\ calls' # 0) => submissions' = submissions + 1]_vars
  /\ [][(pending'.kind = "interview" /\ pending.kind # "interview") =>
          last'.op = "Submit" /\ submissions' = submissions + 1]_vars

C21_Witness ==
  /\ AfterFailedRound
  /\ step = "review"
  /\ calls = 2
  /\ submissions = 2
  /\ pending = NoRequest
  /\ last.promise.settled = "rejected"

C21_CallInFlight ==
  /\ pending.kind = "interview"
  /\ calls = 3
  /\ submissions = 3

(***************************************************************************)
(* Consistency of the cells between handler runs                           *)
(***************************************************************************)
\* C22: in Upload there is no session state; in Review there is one; in
\* Results there is one with a non-empty final cost list and no pending
\* questions.
C22_PhaseStateConsistency ==
  /\ step = "upload" => state = null
  /\ step = "review" => state # null
  /\ step = "results" =>
        /\ state # null
        /\ state.final_costs # null
        /\ Len(state.final_costs.arr) > 0
        /\ Len(state.pending_questions) = 0

C22_Witness ==
  /\ step = "results"
  /\ attempts = 2
  /\ Len(state.final_costs.arr) = 2
  /\ Len(state.pending_questions) = 0
  /\ Len(state.items) = 1

C22_UploadAfterSession ==
  /\ step = "upload"
  /\ state = null
  /\ last.op = "InterviewSettled"
  /\ last.pre.step = "review"

\* C23: an error is set only in Upload and a clarification only in Review
\* with no round in flight; neither is set in Results, nor when an accepted
\* upload has just entered Review.
C23_MessageLocality ==
  /\ error # null => step = "upload"
  /\ clarification # null =>
        step = "review" /\ pending.kind # "interview" /\ ~loading
  /\ step = "results" => error = null /\ clarification = null
  /\ (AfterUploadResponse /\ step = "review") => error = null /\ clarification = null

C23_Witness ==
  /\ pending.kind = "interview"
  /\ step = "review"
  /\ attempts = 2
  /\ clarification = null
  /\ error = null

C23_NewSessionAfterExhaustion ==
  /\ AfterUploadResponse
  /\ step = "review"
  /\ last.pre.step = "upload"
  /\ error = null
  /\ clarification = null

C23_ClarificationShown ==
  /\ clarification # null
  /\ attempts = 2
  /\ step = "review"

\* C24: loading is set only while a request is in flight; when a handler
\* run has completed, whatever its outcome, loading is false and the page
\* offers the user a next action.
C24_LoadingOnlyInFlight ==
  /\ loading => pending.kind \in {"upload", "interview"}
  /\ last.op \in {"UploadSettled", "InterviewSettled"} =>
        /\ ~loading
        /\ pending = NoRequest
  /\ pending = NoRequest =>
        /\ ~loading
        /\ step = "upload" => ENABLED Upload
        /\ step = "review" => ENABLED Cancel /\ \E t \in TextInputs : ENABLED TypeText(t)
        /\ (step = "review" /\ Trim(text) # <<>>) => ENABLED Submit
        /\ step = "results" => ENABLED StartOver

C24_Witness ==
  /\ AfterFailedRound
  /\ last.promise.settled = "rejected"
  /\ last.pre.attempts = 1
  /\ step = "review"
  /\ ~loading
  /\ Trim(text) # <<>>

C24_AfterUploadError ==
  /\ last.op = "UploadSettled"
  /\ last.promise.settled = "rejected"
  /\ ~loading
  /\ step = "upload"

(***************************************************************************)
(* A failed upload request                                                 *)
(***************************************************************************)
UploadThrew == last.op = "UploadSettled" /\ last.promise.settled = "rejected"

\* C25: when uploadReceipt throws (the request fails, the response is not
\* OK, or its body is not JSON) the page stays in Upload with no state and
\* attempts 0, and the error shown is the message of the failure, never the
\* gate's rejection.
C25_UploadFailureSurfaced ==
  /\ UploadThrew =>
        /\ step = "upload"
        /\ state = null
        /\ attempts = 0
        /\ clarification = null
        /\ ~loading
        /\ error # null
        /\ error # Str(GateRejectMessage)
        /\ error.str = last.promise.reason.message
        /\ error.str \in
             {<<"Failed to fetch">>, <<"Thread not found">>,
              <<"Unexpected token in JSON">>}
             \cup {<<"Upload failed (", ToString(st), ")">> : st \in HttpErrorStatuses}
  /\ \A res \in FetchErrorResponses :
        /\ uploadReceipt(res).settled = "rejected"
        /\ uploadReceipt(res).reason.message =
             IF res.parsed /\ res.body.detail # null THEN res.body.detail.str
             ELSE <<"Upload failed (", ToString(res.status), ")">>

C25_Witness ==
  /\ UploadThrew
  /\ step = "upload"
  /\ error = Str(<<"Upload failed (", "500", ")">>)
  /\ state = null

C25_DetailShown ==
  /\ UploadThrew
  /\ error = Str(<<"Thread not found">>)

====
